---- MODULE Spec2Model ----
(***************************************************************************)
(* FileFrame (etl_file_tools/file_load_dataframe.py): a table wrapper that *)
(* keeps two parallel lists, the constraint closures and their _Constraint *)
(* descriptors, and validates every loaded table against the closures.     *)
(***************************************************************************)
EXTENDS Integers, Sequences, FiniteSets, TLC

VARIABLES
    dataframe,           \* FileFrame._dataframe: a sequence of rows
    constraints,         \* FileFrame._constraints: sequence of closures
    constraint_details,  \* FileFrame._constraint_details: sequence of _Constraint
    result               \* what the last call did: its name, argument, outcome

vars == <<dataframe, constraints, constraint_details, result>>

----------------------------------------------------------------------------
\* Bounds of the model.
MaxRows == 2          \* rows of a table a closure is called on
MaxVal == 2           \* non-null cell values are 1..MaxVal
MaxLoadRows == 1      \* rows of a table that is loaded
MaxObj == 2           \* distinct closure objects built from the same arguments
MaxConstraints == 3   \* length of the closure list, loads included
MaxRegistry == 2      \* length of the closure list, add and remove alone
MaxColumnNames == 3   \* length a caller grows a column list to

\* A missing value (None / NaN in a pandas column); also Python's None as
\* the default of an unset _Constraint field.
NULL == -1
\* The default of an unset string field of _Constraint (Python's None).
NoneStr == "None"

Columns == {"a", "b"}
Values == 1..MaxVal
Cells == Values \cup {NULL}
Rows == [Columns -> Cells]
Tables == UNION {[1..n -> Rows] : n \in 0..MaxRows}
LoadTables == UNION {[1..n -> [Columns -> {NULL, 1}]] : n \in 0..MaxLoadRows}

----------------------------------------------------------------------------
\* The pandas operations the closures use.

\* Series.isnull(), one cell.
isnull(v) == v = NULL

\* DataFrame.duplicated(subset=column_names), keep='first': row i is marked
\* when an earlier row has the same values in every column of the subset.
\* pandas compares missing values as equal to each other here.
duplicated(df, column_names) ==
    [i \in DOMAIN df |->
        \E j \in 1..(i - 1) :
            \A k \in DOMAIN column_names :
                df[j][column_names[k]] = df[i][column_names[k]]]

\* Series.fillna(value=default_value) assigned back to the column.
fillna(df, column_name, default_value) ==
    [i \in DOMAIN df |->
        [df[i] EXCEPT ![column_name] = IF isnull(@) THEN default_value ELSE @]]

\* str.upper() on the characters a condition is written with.
upper(s) ==
    [i \in DOMAIN s |-> IF s[i] = "x" THEN "X" ELSE s[i]]

\* str.strip(): drop leading and trailing blanks.
RECURSIVE lstrip(_)
lstrip(s) ==
    IF s # <<>> /\ Head(s) = " " THEN lstrip(Tail(s)) ELSE s

RECURSIVE rstrip(_)
rstrip(s) ==
    IF s # <<>> /\ s[Len(s)] = " " THEN rstrip(SubSeq(s, 1, Len(s) - 1)) ELSE s

strip(s) == rstrip(lstrip(s))

\* Elementwise comparison of a cell with check_value; a missing cell
\* compares False under every operator but !=.
compare(op, x, check_value) ==
    IF isnull(x) THEN op = <<"!", "=">>
    ELSE CASE op = <<"=">> -> x = check_value
           [] op = <<">">> -> x > check_value
           [] op = <<"<">> -> x < check_value
           [] op = <<">", "=">> -> x >= check_value
           [] op = <<"<", "=">> -> x <= check_value
           [] op = <<"!", "=">> -> x # check_value
           [] OTHER -> FALSE

SupportedConditions ==
    {<<"=">>, <<">">>, <<"<">>, <<">", "=">>, <<"<", "=">>, <<"!", "=">>}

----------------------------------------------------------------------------
\* The closures. Calling one on a table gives [err, df]: err is "ok" or the
\* violation raised, df the table as the call leaves it.

Outcome(err, df) == [err |-> err, df |-> df]

\* A not_null that raises only when every row is null.
not_null_constraint_all(cells, df) ==
    IF \A i \in DOMAIN df : isnull(df[i][cells.column_name])
    THEN Outcome("NotNull", df)
    ELSE Outcome("ok", df)

not_null_constraint(cells, df) ==
    IF \E i \in DOMAIN df : isnull(df[i][cells.column_name])
    THEN Outcome("NotNull", df)
    ELSE Outcome("ok", df)

\* A primary_key that looks for duplicates before it looks for nulls.
primary_key_constraint_duplicates_first(cells, df) ==
    IF \E i \in DOMAIN df : duplicated(df, cells.column_names)[i]
    THEN Outcome("PrimaryKeyDuplicate", df)
    ELSE IF \E i \in DOMAIN df :
                \E k \in DOMAIN cells.column_names :
                    isnull(df[i][cells.column_names[k]])
         THEN Outcome("PrimaryKeyNull", df)
         ELSE Outcome("ok", df)

primary_key_constraint(cells, df) ==
    IF \E i \in DOMAIN df :
           \E k \in DOMAIN cells.column_names : isnull(df[i][cells.column_names[k]])
    THEN Outcome("PrimaryKeyNull", df)
    ELSE IF \E i \in DOMAIN df : duplicated(df, cells.column_names)[i]
         THEN Outcome("PrimaryKeyDuplicate", df)
         ELSE Outcome("ok", df)

unique_constraint(cells, df) ==
    IF \E i \in DOMAIN df : duplicated(df, cells.column_names)[i]
    THEN Outcome("UniqueDuplicate", df)
    ELSE Outcome("ok", df)

\* A check_constraint that compares the operator as it was written, without
\* trimming it.
check_constraint_no_strip(cells, df) ==
    LET op == upper(cells.check_condition)
    IN  IF op \in SupportedConditions
        THEN IF \A i \in DOMAIN df :
                    compare(op, df[i][cells.column_name], cells.check_value)
             THEN Outcome("ok", df)
             ELSE Outcome("CheckFailed", df)
        ELSE Outcome("UnsupportedOperator", df)

\* A check_constraint that lets an operator it does not know pass.
check_constraint_unsupported_passes(cells, df) ==
    LET op == strip(upper(cells.check_condition))
    IN  IF op \in SupportedConditions
        THEN IF \A i \in DOMAIN df :
                    compare(op, df[i][cells.column_name], cells.check_value)
             THEN Outcome("ok", df)
             ELSE Outcome("CheckFailed", df)
        ELSE Outcome("ok", df)

check_constraint(cells, df) ==
    LET op == strip(upper(cells.check_condition))
    IN  IF op \in SupportedConditions
        THEN IF \A i \in DOMAIN df :
                    compare(op, df[i][cells.column_name], cells.check_value)
             THEN Outcome("ok", df)
             ELSE Outcome("CheckFailed", df)
        ELSE Outcome("UnsupportedOperator", df)

\* A default_value that fills a copy of the column and assigns nothing back.
default_value_constraint_no_assign(cells, df) ==
    Outcome("ok", df)

default_value_constraint(cells, df) ==
    Outcome("ok", fillna(df, cells.column_name, cells.default_value))

\* Calling the closure object func.
Call(func, df) ==
    CASE func.name = "not_null_constraint" -> not_null_constraint(func.cells, df)
      [] func.name = "primary_key_constraint" -> primary_key_constraint(func.cells, df)
      [] func.name = "unique_constraint" -> unique_constraint(func.cells, df)
      [] func.name = "check_constraint" -> check_constraint(func.cells, df)
      [] func.name = "default_value_constraint" -> default_value_constraint(func.cells, df)

----------------------------------------------------------------------------
\* The builders. A closure object is its function name, the cells it closed
\* over, and obj, which tells apart two objects built from equal arguments.

constraint_not_null(column_name, obj) ==
    [name |-> "not_null_constraint", obj |-> obj,
     cells |-> [column_name |-> column_name]]

constraint_primary_key(column_names, obj) ==
    [name |-> "primary_key_constraint", obj |-> obj,
     cells |-> [column_names |-> column_names]]

constraint_unique(column_names, obj) ==
    [name |-> "unique_constraint", obj |-> obj,
     cells |-> [column_names |-> column_names]]

constraint_check(column_name, check_condition, check_value, obj) ==
    [name |-> "check_constraint", obj |-> obj,
     cells |-> [check_condition |-> check_condition, check_value |-> check_value,
                column_name |-> column_name]]

constraint_default_value(column_name, default_value, obj) ==
    [name |-> "default_value_constraint", obj |-> obj,
     cells |-> [column_name |-> column_name, default_value |-> default_value,
                kwargs |-> <<>>]]

----------------------------------------------------------------------------
\* _Constraint, the frozen dataclass: the fields a closure did not capture
\* keep their defaults (column_names an empty list, the others None).
NoneCond == <<>>

Field(cells, k, default) == IF k \in DOMAIN cells THEN cells[k] ELSE default

\* Reads the closure's cells by free-variable name, skipping kwargs, and
\* builds the _Constraint from them.
get_constraint_closure_function_details(func) ==
    LET func_details == [k \in DOMAIN func.cells \ {"kwargs"} |-> func.cells[k]]
    IN  [constraint_name |-> func.name,
         column_names |-> Field(func_details, "column_names", <<>>),
         column_name |-> Field(func_details, "column_name", NoneStr),
         check_condition |-> Field(func_details, "check_condition", NoneCond),
         check_value |-> Field(func_details, "check_value", NULL),
         default_value |-> Field(func_details, "default_value", NULL)]

\* column_name in column_names, for a Python list.
InList(x, list) == \E k \in DOMAIN list : list[k] = x

\* The tests with the primary-key test made only of equal descriptors.
AddCheck_pk_same_columns(input_constraint, constraint) ==
    IF /\ input_constraint.constraint_name = "not_null_constraint"
       /\ constraint.constraint_name = "primary_key_constraint"
       /\ InList(input_constraint.column_name, constraint.column_names)
    THEN "PrimaryKeyNotNullConflict"
    ELSE IF input_constraint = constraint
         THEN IF input_constraint.constraint_name = "primary_key_constraint"
              THEN "DuplicatePrimaryKey" ELSE "DuplicateConstraint"
         ELSE "ok"

\* The tests without the one of a not_null against the primary key.
AddCheck_no_not_null_test(input_constraint, constraint) ==
    IF /\ input_constraint.constraint_name = "primary_key_constraint"
       /\ input_constraint.constraint_name = constraint.constraint_name
    THEN "DuplicatePrimaryKey"
    ELSE IF input_constraint = constraint THEN "DuplicateConstraint" ELSE "ok"

\* The tests without the comparison of the two descriptors.
AddCheck_no_equality_test(input_constraint, constraint) ==
    IF /\ input_constraint.constraint_name = "primary_key_constraint"
       /\ input_constraint.constraint_name = constraint.constraint_name
    THEN "DuplicatePrimaryKey"
    ELSE IF /\ input_constraint.constraint_name = "not_null_constraint"
            /\ constraint.constraint_name = "primary_key_constraint"
            /\ InList(input_constraint.column_name, constraint.column_names)
         THEN "PrimaryKeyNotNullConflict"
         ELSE "ok"

\* The tests with the not_null test made against the first key column only.
AddCheck_not_null_first_key_column(input_constraint, constraint) ==
    IF /\ input_constraint.constraint_name = "primary_key_constraint"
       /\ input_constraint.constraint_name = constraint.constraint_name
    THEN "DuplicatePrimaryKey"
    ELSE IF /\ input_constraint.constraint_name = "not_null_constraint"
            /\ constraint.constraint_name = "primary_key_constraint"
            /\ constraint.column_names # <<>>
            /\ input_constraint.column_name = constraint.column_names[1]
         THEN "PrimaryKeyNotNullConflict"
         ELSE IF input_constraint = constraint
              THEN "DuplicateConstraint"
              ELSE "ok"

\* The three tests add_constraint makes of the input against one registered
\* descriptor, in the order it makes them.
AddCheck(input_constraint, constraint) ==
    IF /\ input_constraint.constraint_name = "primary_key_constraint"
       /\ input_constraint.constraint_name = constraint.constraint_name
    THEN "DuplicatePrimaryKey"
    ELSE IF /\ input_constraint.constraint_name = "not_null_constraint"
            /\ constraint.constraint_name = "primary_key_constraint"
            /\ InList(input_constraint.column_name, constraint.column_names)
         THEN "PrimaryKeyNotNullConflict"
         ELSE IF input_constraint = constraint
              THEN "DuplicateConstraint"
              ELSE "ok"

\* The loop of add_constraint over constraint_details from index i on: the
\* first descriptor that trips a test decides the error.
RECURSIVE AddError(_, _, _)
AddError(input_constraint, details, i) ==
    IF i > Len(details) THEN "ok"
    ELSE LET e == AddCheck(input_constraint, details[i])
         IN  IF e # "ok" THEN e ELSE AddError(input_constraint, details, i + 1)

\* [x for x in list if x != y]
RECURSIVE Without(_, _)
Without(list, y) ==
    IF list = <<>> THEN <<>>
    ELSE IF Head(list) # y THEN <<Head(list)>> \o Without(Tail(list), y)
         ELSE Without(Tail(list), y)

\* A loop that goes on calling closures after one has raised.
RECURSIVE validate_constraints_no_abort(_, _, _)
validate_constraints_no_abort(funcs, df, i) ==
    IF i > Len(funcs) THEN [err |-> "ok", df |-> df, n |-> i - 1]
    ELSE LET o == Call(funcs[i], df)
             rest == validate_constraints_no_abort(funcs, o.df, i + 1)
         IN  IF o.err # "ok" THEN [rest EXCEPT !.err = o.err] ELSE rest

\* _validate_constraints from closure i on: calls the closures in list
\* order on the one table object; the first violation ends the loop. n is
\* the number of closures called.
RECURSIVE validate_constraints(_, _, _)
validate_constraints(funcs, df, i) ==
    IF i > Len(funcs) THEN [err |-> "ok", df |-> df, n |-> i - 1]
    ELSE LET o == Call(funcs[i], df)
         IN  IF o.err # "ok" THEN [err |-> o.err, df |-> o.df, n |-> i]
             ELSE validate_constraints(funcs, o.df, i + 1)

----------------------------------------------------------------------------
\* The operations of FileFrame.

NoArg == <<>>

Init ==
    /\ dataframe = <<>>
    /\ constraints = <<>>
    /\ constraint_details = <<>>
    /\ result = [op |-> "init", arg |-> NoArg, err |-> "ok", n |-> 0]

\* An add_constraint that appends the closure before it runs the tests.
add_constraint_append_first(constraint_func) ==
    LET input_constraint == get_constraint_closure_function_details(constraint_func)
        e == AddError(input_constraint, constraint_details, 1)
    IN  /\ constraints' = Append(constraints, constraint_func)
        /\ IF e = "ok"
           THEN constraint_details' = Append(constraint_details, input_constraint)
           ELSE UNCHANGED constraint_details
        /\ result' = [op |-> "add", arg |-> NoArg, err |-> e, n |-> 0]
        /\ UNCHANGED dataframe

add_constraint(constraint_func) ==
    LET input_constraint == get_constraint_closure_function_details(constraint_func)
        e == AddError(input_constraint, constraint_details, 1)
    IN  /\ IF e = "ok"
           THEN /\ constraints' = Append(constraints, constraint_func)
                /\ constraint_details' = Append(constraint_details, input_constraint)
           ELSE UNCHANGED <<constraints, constraint_details>>
        /\ result' = [op |-> "add", arg |-> NoArg, err |-> e, n |-> 0]
        /\ UNCHANGED dataframe

remove_constraint(constraint_func) ==
    LET input_constraint == get_constraint_closure_function_details(constraint_func)
    IN  /\ constraints' = Without(constraints, constraint_func)
        /\ constraint_details' = Without(constraint_details, input_constraint)
        /\ result' = [op |-> "remove", arg |-> NoArg, err |-> "ok", n |-> 0]
        /\ UNCHANGED dataframe

\* A reader that stores the table and returns without validating it.
Load_no_validate(op, table) ==
    /\ dataframe' = table
    /\ result' = [op |-> op, arg |-> table, err |-> "ok", n |-> 0]
    /\ UNCHANGED <<constraints, constraint_details>>

\* A reader that validates the table read before it stores it, and keeps
\* the old table when validation fails.
Load_keep_old_on_failure(op, table) ==
    LET v == validate_constraints(constraints, table, 1)
    IN  /\ dataframe' = IF v.err = "ok" THEN v.df ELSE dataframe
        /\ result' = [op |-> op, arg |-> table, err |-> v.err, n |-> v.n]
        /\ UNCHANGED <<constraints, constraint_details>>

\* The common body of the four readers: the table read replaces _dataframe,
\* then _validate_constraints runs on it.
Load(op, table) ==
    LET v == validate_constraints(constraints, table, 1)
    IN  /\ dataframe' = v.df
        /\ result' = [op |-> op, arg |-> table, err |-> v.err, n |-> v.n]
        /\ UNCHANGED <<constraints, constraint_details>>

read_excel(table) == Load("read_excel", table)
read_csv(table) == Load("read_csv", table)
read_fwf(table) == Load("read_fwf", table)
read_dict(table) == Load("read_dict", table)

----------------------------------------------------------------------------
\* The inputs the operations are exercised with.

Objs == 1..MaxObj

DefaultValues == {1, 2}
PrimaryKeyLists == {<<"a">>, <<"b">>, <<"a", "b">>}
UniqueLists == {<<"a">>, <<"a", "b">>}
CheckConditions == {<<">">>, <<">", "=">>}

\* Every closure the builders give for these arguments, as object o.
Built(o) ==
    {constraint_not_null(c, o) : c \in Columns}
    \cup {constraint_primary_key(l, o) : l \in PrimaryKeyLists}
    \cup {constraint_unique(l, o) : l \in UniqueLists}
    \cup {constraint_check("a", op, 1, o) : op \in CheckConditions}
    \cup {constraint_default_value("a", v, o) : v \in DefaultValues}

FactoryClosures == UNION {Built(o) : o \in Objs}

\* The closures registered where tables are loaded too.
LoadClosures ==
    UNION {{constraint_default_value("a", 1, o), constraint_not_null("a", o),
            constraint_not_null("b", o)} : o \in Objs}

Next ==
    \/ \E f \in LoadClosures :
           add_constraint(f) /\ Len(constraints') <= MaxConstraints
    \/ \E f \in LoadClosures : remove_constraint(f)
    \/ \E t \in LoadTables : read_excel(t)
    \/ \E t \in LoadTables : read_csv(t)
    \/ \E t \in LoadTables : read_fwf(t)
    \/ \E t \in LoadTables : read_dict(t)

Spec == Init /\ [][Next]_vars

\* The registry alone, over every closure of FactoryClosures.
NextRegistry ==
    \/ \E f \in FactoryClosures :
           add_constraint(f) /\ Len(constraints') <= MaxRegistry
    \/ \E f \in FactoryClosures : remove_constraint(f)

SpecRegistry == Init /\ [][NextRegistry]_vars

\* The closures alone: each is called on every table, also on the table an
\* earlier call left.
ColumnLists == {<<"a">>, <<"b">>, <<"a", "b">>, <<"b", "a">>}
Conditions ==
    SupportedConditions
    \cup {<<" ", ">">>, <<"<", "=", " ">>, <<" ", "=", " ">>}
    \cup {<<"=", "=">>, <<">", " ", "=">>, <<"x">>, <<>>}

CallClosures ==
    {constraint_not_null(c, 1) : c \in Columns}
    \cup {constraint_primary_key(l, 1) : l \in ColumnLists}
    \cup {constraint_unique(l, 1) : l \in ColumnLists}
    \cup {constraint_check(c, op, v, 1) : c \in {"a"}, op \in Conditions, v \in Values}
    \cup {constraint_default_value(c, v, 1) : c \in Columns, v \in Values}

InitClosure ==
    /\ dataframe \in Tables
    /\ constraints = <<>>
    /\ constraint_details = <<>>
    /\ result = [op |-> "init", arg |-> NoArg, err |-> "ok", n |-> 0]

\* func(dataframe): result keeps the closure, the table it was given and
\* what it raised.
CallClosure(func) ==
    LET o == Call(func, dataframe)
    IN  /\ dataframe' = o.df
        /\ result' = [op |-> "call", func |-> func, arg |-> dataframe,
                      err |-> o.err, n |-> 1]
        /\ UNCHANGED <<constraints, constraint_details>>

NextClosure == \E f \in CallClosures : CallClosure(f)

SpecClosure == InitClosure /\ [][NextClosure]_vars

\* Check closures, of a known and of an unknown operator, registered where
\* tables are loaded.
CheckLoadClosures ==
    {constraint_check("a", op, 1, 1) : op \in {<<">", "=">>, <<"=", "=">>, <<"x">>}}
    \cup {constraint_not_null("a", 1)}

NextCheck ==
    \/ \E f \in CheckLoadClosures :
           add_constraint(f) /\ Len(constraints') <= MaxRegistry
    \/ \E f \in CheckLoadClosures : remove_constraint(f)
    \/ \E t \in LoadTables : read_dict(t)

SpecCheck == Init /\ [][NextCheck]_vars

\* Closures that trip each of the three tests of add_constraint, registered
\* where tables are loaded.
RecoverClosures ==
    {constraint_primary_key(<<"a">>, 1), constraint_primary_key(<<"b", "a">>, 2),
     constraint_not_null("a", 1), constraint_not_null("a", 2),
     constraint_default_value("a", 1, 1)}

NextRecover ==
    \/ \E f \in RecoverClosures :
           add_constraint(f) /\ Len(constraints') <= MaxConstraints
    \/ \E f \in RecoverClosures : remove_constraint(f)
    \/ \E t \in LoadTables : read_dict(t)

SpecRecover == Init /\ [][NextRecover]_vars

\* The caller's side of the registry: the closure objects it built and keeps,
\* the lists it passed to the builders, and the tuples the properties return.
\* One object of a kind, so that name and obj tell the objects apart.
AliasClosures ==
    {constraint_primary_key(<<"a">>, 1), constraint_unique(<<"b">>, 1),
     constraint_not_null("a", 1)}

SameObject(f, g) == f.name = g.name /\ f.obj = g.obj

\* The closure object f as the caller holds it now: its column_names cell is
\* the list object the caller passed, which the registered closure shares.
Held(f) ==
    IF \E j \in DOMAIN constraints : SameObject(constraints[j], f)
    THEN constraints[CHOOSE j \in DOMAIN constraints : SameObject(constraints[j], f)]
    ELSE f

\* FileFrame.constraints: a tuple copy of the closure list.
constraints_property ==
    /\ result' = [op |-> "constraints", arg |-> constraints, err |-> "ok", n |-> 0]
    /\ UNCHANGED <<dataframe, constraints, constraint_details>>

\* FileFrame.constraint_details: a tuple copy of the descriptor list.
constraint_details_property ==
    /\ result' = [op |-> "constraint_details", arg |-> constraint_details,
                  err |-> "ok", n |-> 0]
    /\ UNCHANGED <<dataframe, constraints, constraint_details>>

\* column_names.append(x) by the caller, on the list it passed to the builder
\* of f (the same list object as column_names of the descriptor taken from
\* the tuple): the closure's cell and the _Constraint both hold that object,
\* not a copy of it.
append_column_name(f, x) ==
    /\ "column_names" \in DOMAIN f.cells
    /\ \E j \in DOMAIN constraints : SameObject(constraints[j], f)
    /\ Len(Held(f).cells.column_names) < MaxColumnNames
    /\ constraints' =
           [j \in DOMAIN constraints |->
               IF SameObject(constraints[j], f)
               THEN [constraints[j] EXCEPT !.cells.column_names = Append(@, x)]
               ELSE constraints[j]]
    /\ constraint_details' =
           [i \in DOMAIN constraint_details |->
               IF i \in DOMAIN constraints /\ SameObject(constraints[i], f)
               THEN [constraint_details[i] EXCEPT !.column_names = Append(@, x)]
               ELSE constraint_details[i]]
    /\ result' = [op |-> "append", arg |-> NoArg, err |-> "ok", n |-> 0]
    /\ UNCHANGED dataframe

NextAlias ==
    \/ \E f \in AliasClosures :
           add_constraint(Held(f)) /\ Len(constraints') <= MaxConstraints
    \/ \E f \in AliasClosures : remove_constraint(Held(f))
    \/ constraints_property
    \/ constraint_details_property
    \/ \E f \in AliasClosures : \E x \in Columns : append_column_name(f, x)

SpecAlias == Init /\ [][NextAlias]_vars

----------------------------------------------------------------------------
\* Properties of loading and validation.

Readers == {"read_excel", "read_csv", "read_fwf", "read_dict"}

Range(list) == {list[i] : i \in DOMAIN list}

\* The table `table` after the first k closures of funcs were called on it,
\* one after the other.
RECURSIVE After(_, _, _)
After(funcs, table, k) ==
    IF k = 0 THEN table ELSE Call(funcs[k], After(funcs, table, k - 1)).df

\* What closure j of funcs raises when the closures before it have run.
RaisedAt(funcs, table, j) == Call(funcs[j], After(funcs, table, j - 1)).err

\* C1: validation calls the registered closures in registration order; the
\* first one that fails ends the run and its error is the load's error, no
\* closure after it is called, and what default_value closures before it
\* filled in stays filled in.
C1_ValidationOrder ==
    result.op \in Readers =>
        /\ result.n <= Len(constraints)
        /\ \A j \in 1..(result.n - 1) : RaisedAt(constraints, result.arg, j) = "ok"
        /\ result.err = "ok" => result.n = Len(constraints)
        /\ result.err # "ok" =>
               /\ result.n >= 1
               /\ RaisedAt(constraints, result.arg, result.n) = result.err
        /\ dataframe = After(constraints, result.arg, result.n)

\* A load that a default_value closure healed before a later closure failed,
\* with a closure left uncalled after the failing one.
C1_Witness ==
    /\ result.op \in Readers
    /\ result.err = "NotNull"
    /\ result.n = 2
    /\ Len(constraints) = 3
    /\ constraints[1].name = "default_value_constraint"
    /\ dataframe # result.arg

----------------------------------------------------------------------------
\* Properties of the registry.

IsPrimaryKey(d) == d.constraint_name = "primary_key_constraint"

PrimaryKeyRegistered ==
    \E i \in DOMAIN constraint_details : IsPrimaryKey(constraint_details[i])

\* Descriptor d names primary_key columns that include c.
Covers(d, c) ==
    IsPrimaryKey(d) /\ \E k \in DOMAIN d.column_names : d.column_names[k] = c

\* Descriptor d is the descriptor of closure f: the same kind, the same
\* column(s), and the same operator and value where the kind has them.
Describes(d, f) ==
    /\ d.constraint_name = f.name
    /\ CASE f.name = "not_null_constraint" ->
               d.column_name = f.cells.column_name
         [] f.name \in {"primary_key_constraint", "unique_constraint"} ->
               d.column_names = f.cells.column_names
         [] f.name = "check_constraint" ->
               /\ d.column_name = f.cells.column_name
               /\ d.check_condition = f.cells.check_condition
               /\ d.check_value = f.cells.check_value
         [] f.name = "default_value_constraint" ->
               /\ d.column_name = f.cells.column_name
               /\ d.default_value = f.cells.default_value

C3_Step ==
    \A f \in FactoryClosures :
        (/\ f.name = "primary_key_constraint"
         /\ PrimaryKeyRegistered
         /\ add_constraint(f))
        => /\ result'.err = "DuplicatePrimaryKey"
           /\ UNCHANGED <<constraints, constraint_details>>

\* C3: while a primary_key descriptor is registered, add of any primary_key
\* closure (the same, overlapping or other columns, the same object or
\* another) fails with DuplicatePrimaryKey; so the descriptor list never
\* holds more than one primary_key descriptor.
C3_OnePrimaryKey ==
    /\ [](Cardinality({i \in DOMAIN constraint_details :
                          IsPrimaryKey(constraint_details[i])}) <= 1)
    /\ [][C3_Step]_vars

\* A primary_key closure was refused while the registry held a primary key
\* and a second descriptor.
C3_Witness ==
    /\ result.op = "add"
    /\ result.err = "DuplicatePrimaryKey"
    /\ Len(constraint_details) = 2
    /\ IsPrimaryKey(constraint_details[2])

\* add of not_null(c) while a primary_key descriptor covering c is registered.
AddsNotNullOnKey(f) ==
    /\ f.name = "not_null_constraint"
    /\ \E i \in DOMAIN constraint_details :
           Covers(constraint_details[i], f.cells.column_name)
    /\ add_constraint(f)

\* A not_null(c) descriptor stands before the primary_key descriptor
\* covering c.
NotNullBeforeKey(c) ==
    \E i \in DOMAIN constraint_details : \E q \in 1..(i - 1) :
        /\ Covers(constraint_details[i], c)
        /\ constraint_details[q].constraint_name = "not_null_constraint"
        /\ constraint_details[q].column_name = c

\* C4 as claimed: while a primary_key descriptor covering c is registered,
\* add(not_null(c)) fails with PrimaryKeyNotNullConflict whatever else is
\* registered, an earlier not_null(c) included.
C4_AlwaysConflict ==
    [][\A f \in FactoryClosures :
           AddsNotNullOnKey(f) => result'.err = "PrimaryKeyNotNullConflict"]_vars

\* C4 amended: while a primary_key descriptor covering c is registered,
\* add(not_null(c)) fails and changes nothing; the error is
\* PrimaryKeyNotNullConflict unless a not_null(c) descriptor is registered
\* before the primary key, and DuplicateConstraint then.
C4_ConflictUnlessEarlierNotNull ==
    [][\A f \in FactoryClosures :
           AddsNotNullOnKey(f) =>
               /\ result'.err =
                      IF NotNullBeforeKey(f.cells.column_name)
                      THEN "DuplicateConstraint"
                      ELSE "PrimaryKeyNotNullConflict"
               /\ UNCHANGED <<constraints, constraint_details>>]_vars

\* not_null(c) was refused with PrimaryKeyNotNullConflict while the registry
\* held a two-column primary key after another descriptor.
C4_Witness ==
    /\ result.op = "add"
    /\ result.err = "PrimaryKeyNotNullConflict"
    /\ Len(constraint_details) = 2
    /\ IsPrimaryKey(constraint_details[2])
    /\ Len(constraint_details[2].column_names) = 2

C5_Step ==
    \A f \in FactoryClosures :
        (/\ f.name \in {"not_null_constraint", "unique_constraint",
                        "check_constraint", "default_value_constraint"}
         /\ \E i \in DOMAIN constraint_details : Describes(constraint_details[i], f)
         /\ add_constraint(f))
        => /\ result'.err = "DuplicateConstraint"
           /\ UNCHANGED <<constraints, constraint_details>>

\* C5: add of a not_null, unique, check or default_value closure whose
\* descriptor equals a descriptor of the descriptor list fails with
\* DuplicateConstraint, whichever object the closure is; so no two
\* descriptors of the list are ever equal.
C5_NoEqualDescriptors ==
    /\ [](\A i, j \in DOMAIN constraint_details :
              i # j => constraint_details[i] # constraint_details[j])
    /\ [][C5_Step]_vars

\* A closure was refused as a duplicate while the list held a check and a
\* default_value descriptor.
C5_Witness ==
    /\ result.op = "add"
    /\ result.err = "DuplicateConstraint"
    /\ Len(constraint_details) = 2
    /\ constraint_details[1].constraint_name = "check_constraint"
    /\ constraint_details[2].constraint_name = "default_value_constraint"

\* C6 as claimed: remove of a closure that is not in the closure list
\* changes neither list, also when a registered closure was built from the
\* same arguments.
C6_RemoveUnregisteredNoOp ==
    [][\A f \in FactoryClosures :
           (f \notin Range(constraints) /\ remove_constraint(f))
           => UNCHANGED <<constraints, constraint_details>>]_vars

\* list without its entry i.
RemoveAt(list, i) == SubSeq(list, 1, i - 1) \o SubSeq(list, i + 1, Len(list))

\* C7 as claimed: remove of a registered closure deletes that one closure
\* and its one descriptor and keeps the other entries of both lists in
\* their order; and once every registered closure is removed both lists are
\* empty. (That a load calls no closure outside the closure list is part of
\* C1_ValidationOrder.)
C7_RemoveExactlyOne ==
    /\ [][\A f \in LoadClosures :
              (f \in Range(constraints) /\ remove_constraint(f))
              => /\ \E i \in DOMAIN constraints :
                        /\ constraints[i] = f
                        /\ constraints' = RemoveAt(constraints, i)
                 /\ \E k \in DOMAIN constraint_details :
                        /\ Describes(constraint_details[k], f)
                        /\ constraint_details' = RemoveAt(constraint_details, k)]_vars
    /\ [](constraints = <<>> => constraint_details = <<>>)

----------------------------------------------------------------------------
\* Properties of the closures, each called on a table by itself.

Called(name) == result.op = "call" /\ result.func.name = name

\* Some row of table is null in column c.
HasNull(table, c) == \E i \in DOMAIN table : table[i][c] = NULL

\* Two rows of table agree in every column of cols.
SameKey(table, cols, i, j) ==
    \A k \in DOMAIN cols : table[i][cols[k]] = table[j][cols[k]]

\* C8: on a table with column c, not_null(c) fails with NotNull exactly when
\* the column holds a null, and leaves the table as it was when it passes.
C8_NotNull ==
    Called("not_null_constraint") =>
        /\ result.err = "NotNull" <=> HasNull(result.arg, result.func.cells.column_name)
        /\ result.err \in {"ok", "NotNull"}
        /\ result.err = "ok" => dataframe = result.arg

\* not_null raised on a table with a null row and a non-null row.
C8_Witness ==
    /\ Called("not_null_constraint")
    /\ result.err = "NotNull"
    /\ Len(result.arg) = 2
    /\ \E i \in DOMAIN result.arg : result.arg[i][result.func.cells.column_name] # NULL

\* C9: primary_key(cols) fails with PrimaryKeyNull when a row is null in a
\* column of cols, also when keys repeat; otherwise with PrimaryKeyDuplicate
\* exactly when two rows agree on cols; otherwise it passes.
C9_PrimaryKey ==
    Called("primary_key_constraint") =>
        LET cols == result.func.cells.column_names
            table == result.arg
        IN  result.err =
                IF \E k \in DOMAIN cols : HasNull(table, cols[k])
                THEN "PrimaryKeyNull"
                ELSE IF \E i, j \in DOMAIN table :
                            i # j /\ SameKey(table, cols, i, j)
                     THEN "PrimaryKeyDuplicate"
                     ELSE "ok"

\* primary_key over two columns raised PrimaryKeyNull on a table whose two
\* rows repeat a key that holds a null and a value.
C9_Witness ==
    /\ Called("primary_key_constraint")
    /\ result.err = "PrimaryKeyNull"
    /\ Len(result.func.cells.column_names) = 2
    /\ Len(result.arg) = 2
    /\ SameKey(result.arg, result.func.cells.column_names, 1, 2)
    /\ \E c \in Columns : result.arg[1][c] # NULL

\* C10 as claimed: unique(cols) fails with UniqueDuplicate exactly when two
\* rows agree on cols in a key that holds no null; rows whose key holds a
\* null never count as duplicates.
C10_UniqueIgnoresNulls ==
    Called("unique_constraint") =>
        LET cols == result.func.cells.column_names
            table == result.arg
        IN  result.err = "UniqueDuplicate" <=>
                \E i, j \in DOMAIN table :
                    /\ i # j
                    /\ SameKey(table, cols, i, j)
                    /\ \A k \in DOMAIN cols : table[i][cols[k]] # NULL

\* check_condition is core with blanks before and after it, and none inside.
Padded(check_condition, core) ==
    \E m \in 0..Len(check_condition) :
        /\ m + Len(core) <= Len(check_condition)
        /\ \A i \in DOMAIN check_condition :
               check_condition[i] =
                   IF i > m /\ i <= m + Len(core) THEN core[i - m] ELSE " "

\* The operator a condition names, surrounding blanks aside; "none" when it
\* names none of the six.
Operator(check_condition) ==
    CASE Padded(check_condition, <<"=">>) -> "eq"
      [] Padded(check_condition, <<">">>) -> "gt"
      [] Padded(check_condition, <<"<">>) -> "lt"
      [] Padded(check_condition, <<">", "=">>) -> "ge"
      [] Padded(check_condition, <<"<", "=">>) -> "le"
      [] Padded(check_condition, <<"!", "=">>) -> "ne"
      [] OTHER -> "none"

\* x op v on integers.
Satisfies(operator, x, v) ==
    CASE operator = "eq" -> x = v
      [] operator = "gt" -> x > v
      [] operator = "lt" -> ~(x >= v)
      [] operator = "ge" -> x >= v
      [] operator = "le" -> ~(x > v)
      [] operator = "ne" -> x # v

\* C11: for each of the six operators, written with or without blanks around
\* it, check(c, op, v) called on a table whose column c holds integers passes
\* exactly when every value x of the column satisfies x op v, and fails with
\* CheckFailed when a single value does not; the table is left as it was.
C11_CheckOperators ==
    (/\ Called("check_constraint")
     /\ Operator(result.func.cells.check_condition) # "none"
     /\ ~HasNull(result.arg, result.func.cells.column_name))
    => LET c == result.func.cells.column_name
           v == result.func.cells.check_value
           operator == Operator(result.func.cells.check_condition)
       IN  /\ result.err = "ok" <=>
                  \A i \in DOMAIN result.arg : Satisfies(operator, result.arg[i][c], v)
           /\ result.err # "ok" => result.err = "CheckFailed"
           /\ dataframe = result.arg

\* check with <= written with a trailing blank failed on a table of two
\* integers of which one satisfies the comparison and one does not.
C11_Witness ==
    /\ Called("check_constraint")
    /\ result.func.cells.check_condition = <<"<", "=", " ">>
    /\ result.err = "CheckFailed"
    /\ Len(result.arg) = 2
    /\ result.arg[1]["a"] = 1
    /\ result.arg[2]["a"] = 2
    /\ result.func.cells.check_value = 1

----------------------------------------------------------------------------
\* Properties of a check closure whose operator is none of the six.

UnsupportedCheck(f) ==
    f.name = "check_constraint" /\ Operator(f.cells.check_condition) = "none"

\* C12 as claimed: the check builder gives no closure for an operator that
\* is none of the six, so no such closure is ever in the closure list and no
\* load ever fails with UnsupportedOperator.
C12_UnsupportedNeverRegistered ==
    /\ \A i \in DOMAIN constraints : ~UnsupportedCheck(constraints[i])
    /\ result.op \in Readers => result.err # "UnsupportedOperator"

C12_Step ==
    \A f \in CheckLoadClosures :
        (/\ UnsupportedCheck(f)
         /\ \A i \in DOMAIN constraint_details : ~Describes(constraint_details[i], f)
         /\ add_constraint(f))
        => /\ result'.err = "ok"
           /\ constraints' = Append(constraints, f)

\* C12 amended: the check builder gives a closure for every operator; add
\* registers the closure of an unknown operator like any other closure, and
\* UnsupportedOperator is raised when the closure is called: a load fails
\* with it exactly when validation reaches such a closure, whatever the
\* table holds.
C12_UnsupportedAtValidation ==
    /\ [](result.op \in Readers =>
             /\ \A j \in DOMAIN constraints :
                    (/\ UnsupportedCheck(constraints[j])
                     /\ \A q \in 1..(j - 1) :
                            RaisedAt(constraints, result.arg, q) = "ok")
                    => result.err = "UnsupportedOperator" /\ result.n = j
             /\ result.err = "UnsupportedOperator"
                    => UnsupportedCheck(constraints[result.n]))
    /\ [][C12_Step]_vars

\* A load of an empty table failed with UnsupportedOperator at the second
\* registered closure.
C12_Witness ==
    /\ result.op = "read_dict"
    /\ result.err = "UnsupportedOperator"
    /\ result.n = 2
    /\ result.arg = <<>>
    /\ UnsupportedCheck(constraints[2])

----------------------------------------------------------------------------
\* Properties of default_value in a load.

IsDefaultValue(f, c) ==
    f.name = "default_value_constraint" /\ f.cells.column_name = c

IsNotNull(f, c) ==
    f.name = "not_null_constraint" /\ f.cells.column_name = c

\* C13: a load in which the closure default_value(c, v) is called leaves no
\* null in c; the cells of c that were null hold v, the other cells of c and
\* the columns without a default_value are as loaded; the closures after it
\* see the filled table: not_null(c) after default_value(c, v) does not fail,
\* while not_null(c) before it fails the load of a table with nulls in c with
\* NotNull.
C13_DefaultValueHeals ==
    result.op \in Readers =>
        \A c \in Columns :
            LET called == {j \in 1..result.n : IsDefaultValue(constraints[j], c)}
            IN  /\ called # {} =>
                       /\ ~HasNull(dataframe, c)
                       /\ \A i \in DOMAIN result.arg :
                              IF isnull(result.arg[i][c])
                              THEN \E j \in called :
                                       dataframe[i][c] = constraints[j].cells.default_value
                              ELSE dataframe[i][c] = result.arg[i][c]
                /\ called = {} =>
                       \A i \in DOMAIN result.arg : dataframe[i][c] = result.arg[i][c]
                /\ \A k \in DOMAIN constraints :
                       IsNotNull(constraints[k], c) =>
                           IF \E j \in 1..(k - 1) : IsDefaultValue(constraints[j], c)
                           THEN ~(result.err = "NotNull" /\ result.n = k)
                           ELSE HasNull(result.arg, c) =>
                                    /\ result.err = "NotNull"
                                    /\ result.n <= k
                                    /\ HasNull(dataframe, c)

\* A table with a null in column a was loaded with default_value(a, 1)
\* registered before not_null(a): the load passed and the null is filled.
C13_Witness ==
    /\ result.op \in Readers
    /\ result.err = "ok"
    /\ Len(constraints) = 2
    /\ IsDefaultValue(constraints[1], "a")
    /\ IsNotNull(constraints[2], "a")
    /\ HasNull(result.arg, "a")
    /\ dataframe[1]["a"] = 1
    /\ dataframe[1]["b"] = NULL

----------------------------------------------------------------------------
\* Properties of a failed add.

AddErrors == {"DuplicatePrimaryKey", "PrimaryKeyNotNullConflict", "DuplicateConstraint"}

\* Closure f breaks one of the three insertion rules against the descriptors
\* registered now.
BreaksRule(f) ==
    \/ f.name = "primary_key_constraint" /\ PrimaryKeyRegistered
    \/ /\ f.name = "not_null_constraint"
       /\ \E i \in DOMAIN constraint_details :
              Covers(constraint_details[i], f.cells.column_name)
    \/ \E i \in DOMAIN constraint_details : Describes(constraint_details[i], f)

C14_Step ==
    \A f \in RecoverClosures :
        add_constraint(f) =>
            IF BreaksRule(f)
            THEN /\ result'.err \in AddErrors
                 /\ UNCHANGED <<constraints, constraint_details, dataframe>>
            ELSE /\ result'.err = "ok"
                 /\ constraints' = Append(constraints, f)
                 /\ Len(constraint_details') = Len(constraint_details) + 1
                 /\ SubSeq(constraint_details', 1, Len(constraint_details))
                        = constraint_details
                 /\ Describes(constraint_details'[Len(constraint_details')], f)
                 /\ UNCHANGED dataframe

\* C14: an add that fails, with DuplicatePrimaryKey, PrimaryKeyNotNullConflict
\* or DuplicateConstraint, leaves the closure list, the descriptor list and
\* the table as they were; an add of a closure that breaks none of the three
\* rules, after a failed add as in any other state, succeeds and appends the
\* closure and its descriptor at the end of the two lists.
C14_FailedAddNonFatal == [][C14_Step]_vars

\* not_null was refused on a key column while a table with a row was loaded
\* and the registry held two closures.
C14_Witness ==
    /\ result.op = "add"
    /\ result.err = "PrimaryKeyNotNullConflict"
    /\ Len(constraints) = 2
    /\ Len(dataframe) = 1
    /\ \E i \in DOMAIN constraint_details :
           IsDefaultValue(constraints[i], "a")

----------------------------------------------------------------------------
\* Properties of the tuples the properties return.

\* C15 as claimed: the two properties return copies in registration order,
\* and nothing the caller does with a tuple, with a descriptor taken from
\* it, or with the column list it passed to a builder changes the closures
\* or the descriptors of the registry: only add and remove change them.
C15_OnlyAddRemoveChange ==
    /\ [](result.op = "constraints" => result.arg = constraints)
    /\ [](result.op = "constraint_details" => result.arg = constraint_details)
    /\ [][(constraints' # constraints \/ constraint_details' # constraint_details)
              => result'.op \in {"add", "remove"}]_vars

----------------------------------------------------------------------------
\* Properties of the two lists together.

\* C16 as claimed: after any adds, removes and loads the two lists are
\* parallel: they are as long as each other and the descriptor at each index
\* is the descriptor of the closure at that index.
C16_ParallelLists ==
    /\ Len(constraints) = Len(constraint_details)
    /\ \A i \in DOMAIN constraints :
           /\ i \in DOMAIN constraint_details
           /\ constraint_details[i] =
                  get_constraint_closure_function_details(constraints[i])

IsNotNullDescriptor(d, c) ==
    d.constraint_name = "not_null_constraint" /\ d.column_name = c

\* C17 as claimed: whatever the order the two kinds were registered in, the
\* descriptor list never holds a not_null descriptor on a column that a
\* primary_key descriptor of the list covers.
C17_NoNotNullOnKey ==
    \A i, j \in DOMAIN constraint_details : \A c \in Columns :
        ~(Covers(constraint_details[i], c)
          /\ IsNotNullDescriptor(constraint_details[j], c))

\* C17 amended: the descriptor list never holds a not_null descriptor on a
\* column behind a primary_key descriptor that covers the column; a not_null
\* on a key column is in the list only when it was added before the key.
C17_NoNotNullAfterKey ==
    \A i, j \in DOMAIN constraint_details : \A c \in Columns :
        (Covers(constraint_details[i], c)
         /\ IsNotNullDescriptor(constraint_details[j], c))
        => j < i

\* The list holds not_null(a) and, behind it, a primary key over b and a.
C17_Witness ==
    /\ Len(constraint_details) = 2
    /\ IsNotNullDescriptor(constraint_details[1], "a")
    /\ Covers(constraint_details[2], "b")
    /\ Covers(constraint_details[2], "a")
    /\ result.op = "add"

----------------------------------------------------------------------------
\* Properties of a load that fails.

\* table with the nulls of each column filled by the first default_value
\* closure on that column among the first m closures of funcs.
Healed(table, funcs, m) ==
    [i \in DOMAIN table |->
        [c \in Columns |->
            LET fills == {j \in 1..m : IsDefaultValue(funcs[j], c)}
            IN  IF table[i][c] = NULL /\ fills # {}
                THEN funcs[CHOOSE j \in fills : \A q \in fills : j <= q]
                         .cells.default_value
                ELSE table[i][c]]]

C18_Step ==
    \A t \in LoadTables :
        (/\ result'.err # "ok"
         /\ result'.arg = t
         /\ read_excel(t) \/ read_csv(t) \/ read_fwf(t) \/ read_dict(t))
        => /\ dataframe' = Healed(t, constraints, result'.n - 1)
           /\ UNCHANGED <<constraints, constraint_details>>

----------------------------------------------------------------------------
\* Properties of an add followed by its remove.

\* C19 as claimed: remove of the closure that the add just before it
\* registered gives back both lists as they were before that add, contents
\* and order, and the closure can then be added again.
C19_AddRemoveRestores ==
    [][(/\ result.op = "add"
        /\ result.err = "ok"
        /\ constraints # <<>>
        /\ remove_constraint(constraints[Len(constraints)]))
       => /\ constraints' = SubSeq(constraints, 1, Len(constraints) - 1)
          /\ constraint_details' =
                 SubSeq(constraint_details, 1, Len(constraint_details) - 1)
          /\ AddError(get_constraint_closure_function_details(
                          constraints[Len(constraints)]),
                      constraint_details', 1) = "ok"]_vars

====
